---- MODULE Spec2Model ----
(***************************************************************************)
(* A model of the ActivityStreams transformer and resolver chain of        *)
(* src/lib/index.ts: the type registry, the composite class cache, the     *)
(* transform dispatch, the link conversion done while populating an        *)
(* instance, and the resolver's successor relation.                        *)
(***************************************************************************)
EXTENDS Integers, Sequences, FiniteSets, TLC

VARIABLES
  types,       \* types[t]: the registry of transformer t, tag -> constructor name
  composites,  \* composites[t]: the composite cache of t, key -> composed class
  options,     \* options[t]: the TransformerOptions of t
  last,        \* the last Transformer call: its receiver, arguments and outcome
  next,        \* next[n]: the successor of resolver node n
  lastSet,     \* the last setNext call: its receiver, argument and return value
  kind,        \* kind[n]: the class of resolver node n
  lastHandle,  \* the last handle call made from outside: its arguments, its
               \* outcome and the log of the handle invocations it caused
  links,       \* links[l]: the href, the href-only flag and the resolved value of link l
  calls,       \* calls[p]: the resolve call of caller p that awaits its handler
  lastLink,    \* the last operation on a link: its arguments and its outcome
  batch        \* the last ResolvableArray.resolve call: its elements, the state
               \* of each element's resolution, and its result

linkVars == <<links, calls, lastLink, batch>>

vars == <<types, composites, options, last, next, lastSet, kind, lastHandle, linkVars>>

None == "none"

(***************************************************************************)
(* Bounds of the model.                                                    *)
(***************************************************************************)
MaxSeqLen == 2       \* longest input array
MaxComposites == 2   \* the cache is not grown beyond this many entries
MaxCtors == 3        \* longest list of constructors given to composeClass

(***************************************************************************)
(* Tags and constructors.  A constructor carries a static type, the tag    *)
(* add() binds it to; A1 and A2 carry the same tag, so adding one after    *)
(* the other re-registers the tag.  "X" is a tag no constructor carries.   *)
(***************************************************************************)
Tags == {"A", "B", "A-B", "X"}

\* The type lists documents are given.
TypeLists ==
  {<<>>, <<"X">>, <<"A", "B">>, <<"B", "A">>, <<"A", "X">>, <<"X", "B", "X">>}
AllTags == Tags \cup {"Link"}
Constructors == {"A1", "A2", "B1", "AB1", "PublicLink"}

CtorType(c) ==
  CASE c = "A1" -> "A"
    [] c = "A2" -> "A"
    [] c = "B1" -> "B"
    [] c = "AB1" -> "A-B"
    [] c = "PublicLink" -> "Link"

(***************************************************************************)
(* Members (fields and behaviours) of a class.  own: the members defined   *)
(* directly on the class's prototype; inh: the members it reaches through  *)
(* its prototype chain.  A member's value names the definition it is.      *)
(***************************************************************************)
MemberNames == {"x", "y", "content", "attributedTo", "resolve"}
NoMembers == [m \in MemberNames |-> None]

OwnMembers(c) ==
  CASE c = "A1" -> [NoMembers EXCEPT !["x"] = "A1.x", !["content"] = "A1.content",
                                     !["attributedTo"] = "A1.attributedTo"]
    [] c = "A2" -> [NoMembers EXCEPT !["x"] = "A2.x", !["y"] = "A2.y"]
    [] c = "B1" -> [NoMembers EXCEPT !["x"] = "B1.x", !["content"] = "B1.content"]
    [] c = "AB1" -> [NoMembers EXCEPT !["y"] = "AB1.y"]
    [] c = "PublicLink" -> NoMembers

InheritedMembers(c) ==
  CASE c = "A1" -> NoMembers
    [] c = "A2" -> [NoMembers EXCEPT !["content"] = "ASObject.content",
                                     !["attributedTo"] = "ASObject.attributedTo"]
    [] c = "B1" -> [NoMembers EXCEPT !["resolve"] = "ASObject.resolve",
                                     !["attributedTo"] = "ASObject.attributedTo"]
    [] c = "AB1" -> [NoMembers EXCEPT !["resolve"] = "ASObject.resolve"]
    [] c = "PublicLink" -> [NoMembers EXCEPT !["resolve"] = "ASLink.resolve"]

\* A registered constructor as a class; serial 0 marks a class that was not composed.
ClassOf(c) ==
  [name |-> c, serial |-> 0, own |-> OwnMembers(c), inh |-> InheritedMembers(c)]

\* `class {}`, the seed of the fold in composeClass.
EmptyClass == [name |-> "class", serial |-> 0, own |-> NoMembers, inh |-> NoMembers]

\* Property lookup on an instance of cls: own members shadow inherited ones.
Members(cls) ==
  [m \in MemberNames |-> IF cls.own[m] # None THEN cls.own[m] ELSE cls.inh[m]]

(***************************************************************************)
(* Values.  Every value is a record with a kind.  A document (kind         *)
(* "object") carries its type field and three more fields: a link-bearing  *)
(* field (attributedTo), a plain recognized field (content) and a field no *)
(* class declares (extra).                                                 *)
(***************************************************************************)
Undefined == [kind |-> "undefined"]
Null == [kind |-> "null"]
Str(s) == [kind |-> "string", s |-> s]
Arr(items) == [kind |-> "array", items |-> items]

Scalars == {Str("plain"), [kind |-> "number"], [kind |-> "boolean"], Null, Undefined}

\* The shapes of a document's type field.
TypeAbsent == [k |-> "absent"]
TypeNumber == [k |-> "number"]
TypeString(tag) == [k |-> "string", s |-> tag]
TypeList(l) == [k |-> "list", l |-> l]

SeqsUpTo(S, n) == UNION {[1..k -> S] : k \in 0..n}

TypeValues ==
  {TypeAbsent, TypeNumber} \cup {TypeString(tag) : tag \in {"A", "B", "X"}}
    \cup {TypeList(l) : l \in TypeLists}

Doc(type, attributedTo, content, extra) ==
  [kind |-> "object", type |-> type, attributedTo |-> attributedTo,
   content |-> content, extra |-> extra]

\* A link-shaped object, as it may stand in a link-bearing field.
LinkObject == [kind |-> "object", type |-> TypeString("Link"), href |-> "https://l"]

\* What a link-bearing field may hold.
LinkFieldValues ==
  {Str("http://h"), Str("acct:u"), LinkObject,
   Arr(<<Str("https://s"), LinkObject>>), Arr(<<Str("https://s"), Str("acct:u")>>)}

\* Documents without a link-bearing field, of every type shape.
PlainDocs == {Doc(ty, Undefined, Str("c"), Str("e")) : ty \in TypeValues}

\* Documents with a link-bearing field.
LinkDocs ==
  {Doc(ty, a, Undefined, Undefined) :
     ty \in {TypeString("A"), TypeList(<<"A", "B">>)}, a \in LinkFieldValues}

\* The elements input arrays are built from.
Elements ==
  {Str("plain"), Null}
    \cup {Doc(ty, Undefined, Str("c"), Str("e")) :
           ty \in {TypeString("A"), TypeList(<<"A", "B">>), TypeList(<<"B", "X">>)}}

Arrays == {Arr(items) : items \in SeqsUpTo(Elements, MaxSeqLen)}

\* One array nested in another.
NestedArrays == {Arr(<<a>>) : a \in {Arr(<<>>), Arr(<<Str("plain")>>)}}

Values == Scalars \cup PlainDocs \cup LinkDocs \cup Arrays \cup NestedArrays

\* JavaScript's typeof, on the kinds of the model: typeof null is "object".
TypeOf(v) ==
  IF v.kind \in {"object", "null", "array"} THEN "object" ELSE v.kind

(***************************************************************************)
(* Outcomes of a call.  Returned(v) is the return of the very value v that *)
(* was passed in; the other outcomes are values the call made itself, or   *)
(* an error it raised.                                                     *)
(***************************************************************************)
Returned(v) == [tag |-> "value", v |-> v]
ReturnedUndefined == [tag |-> "undefined"]
Thrown(err) == [tag |-> "throw", err |-> err]
NewArray(items) == [tag |-> "array", items |-> items]
NewInstance(cls, fields) == [tag |-> "instance", cls |-> cls, fields |-> fields]

(***************************************************************************)
(* Link conversion: Transformer.isValidLink, Transformer.plainToLink, the  *)
(* Link constructor on a bare string, and transformLinkFn.  reg is the     *)
(* registry of the transformer whose plainToLink is called.                *)
(***************************************************************************)
StartsWith(s, prefix) ==
  Len(s) >= Len(prefix) /\ SubSeq(s, 1, Len(prefix)) = prefix

isValidLink(url) == StartsWith(url, "http://") \/ StartsWith(url, "https://")

\* new Link(url): href is the string and the href-only flag is set.
NewLinkFromString(ctor, url) ==
  [tag |-> "link", cls |-> ctor, href |-> url, href_only |-> TRUE]

plainToLink(reg, url) ==
  IF reg["Link"] # None /\ isValidLink(url)
  THEN NewLinkFromString(reg["Link"], url)
  ELSE Thrown("Invalid URL")

\* The elements of a list held by a link-bearing field: strings are converted.
LinkItem(reg, v) == IF v.kind = "string" THEN plainToLink(reg, v.s) ELSE Returned(v)

\* transformLinkFn on a PLAIN_TO_CLASS transformation; reg is the registry of the
\* transformer it uses, which is always the built-in one.
transformLinkFn(reg, value) ==
  IF value.kind = "array" THEN
    LET items == [i \in 1..Len(value.items) |-> LinkItem(reg, value.items[i])]
        bad == {i \in 1..Len(items) : items[i].tag = "throw"}
    IN IF bad # {} THEN items[CHOOSE i \in bad : \A j \in bad : i <= j]
       ELSE [tag |-> "resolvableArray", items |-> items]
  ELSE IF value.kind = "string" THEN plainToLink(reg, value.s)
  ELSE Returned(value)

(***************************************************************************)
(* plainToInstance of class-transformer, as transform calls it: a new      *)
(* instance of cls whose fields are the document's fields that cls         *)
(* declares, each passed through the transformation its declaration        *)
(* carries; a field cls does not declare is dropped under                  *)
(* excludeExtraneousValues and copied otherwise; a field the document does *)
(* not hold stays unset (exposeUnsetFields is false).                      *)
(***************************************************************************)
FieldNames == {"attributedTo", "content", "extra"}
LinkFields == {"attributedTo"}
FieldUnset == [tag |-> "unset"]

Recognized(cls, f) == f \in MemberNames /\ Members(cls)[f] # None

PopulateField(cls, value, f, excludeExtraneousValues, linkReg) ==
  IF value[f] = Undefined THEN FieldUnset
  ELSE IF Recognized(cls, f) THEN
    IF f \in LinkFields THEN transformLinkFn(linkReg, value[f]) ELSE Returned(value[f])
  ELSE IF excludeExtraneousValues THEN FieldUnset
  ELSE Returned(value[f])

plainToInstance(cls, value, excludeExtraneousValues, linkReg) ==
  LET fields == [f \in FieldNames |->
                   PopulateField(cls, value, f, excludeExtraneousValues, linkReg)]
      bad == {f \in FieldNames : fields[f].tag = "throw"}
  IN IF bad # {} THEN fields[CHOOSE f \in bad : TRUE]
     ELSE NewInstance(cls, fields)

(***************************************************************************)
(* Transformer.mixinClass and Transformer.composeClass.                    *)
(***************************************************************************)
\* mixinClass in which a property the target already has is not overwritten.
mixinClass_TargetWins(target, source) ==
  [name |-> "composite", serial |-> 0,
   own |-> [m \in MemberNames |->
              IF Members(target)[m] # None THEN Members(target)[m] ELSE source.own[m]],
   inh |-> Members(target)]

\* mixinClass whose class does not extend the target.
mixinClass_NoExtends(target, source) ==
  [name |-> "composite", serial |-> 0, own |-> source.own, inh |-> NoMembers]

\* A new class that extends target and carries, as its own, the properties
\* defined directly on source's prototype.
mixinClass(target, source) ==
  [name |-> "composite", serial |-> 0, own |-> source.own, inh |-> Members(target)]

RECURSIVE Reduce(_, _)
Reduce(prev, constructors) ==
  IF constructors = <<>> THEN prev
  ELSE Reduce(mixinClass(prev, ClassOf(Head(constructors))), Tail(constructors))

\* The fold over the constructors, left to right, from `class {}`.
composeClass(constructors) == Reduce(EmptyClass, constructors)

(***************************************************************************)
(* Transformer.transform.  self holds the receiver's types, composites and *)
(* options; linkReg is the registry of the built-in transformer, which     *)
(* population uses to convert links.  The outcome is the return value (or  *)
(* the error raised) and the receiver's composites after the call.         *)
(***************************************************************************)
DefaultOptions ==
  [convertTextToLinks |-> TRUE, composeWithMissingConstructors |-> TRUE,
   enableCompositeTypes |-> TRUE, alwaysReturnValueOnTransform |-> FALSE]

EmptyCache == [key \in {} |-> EmptyClass]

\* value.type.filter(t => this.types[t])
FilterRegistered(reg, l) == SelectSeq(l, LAMBDA tag : reg[tag] # None)

\* types.join('-')
RECURSIVE Join(_)
Join(l) ==
  IF l = <<>> THEN ""
  ELSE IF Len(l) = 1 THEN l[1]
  ELSE l[1] \o "-" \o Join(Tail(l))

\* The identity of a class made by this call: the cache holds every class
\* composed so far, so its size numbers the next one.
\* A serial that does not tell two composed classes apart.
FreshSerial_Constant(comps) == 1

FreshSerial(comps) == Cardinality(DOMAIN comps) + 1

\* transformComposite without the early return on an empty filtered list.
transformComposite_NoEmptyCheck(self, linkReg, value, excludeExtraneousValues) ==
  LET typeList == FilterRegistered(self.types, value.type.l)
      symbol == Join(typeList)
  IN IF symbol \in DOMAIN self.composites THEN
       [ret |-> plainToInstance(self.composites[symbol], value,
                                excludeExtraneousValues, linkReg),
        composites |-> self.composites]
     ELSE
       LET ctors == [i \in 1..Len(typeList) |-> self.types[typeList[i]]]
           cls == [composeClass(ctors) EXCEPT !.serial = FreshSerial(self.composites)]
           cached == (symbol :> cls) @@ self.composites
       IN [ret |-> plainToInstance(cls, value, excludeExtraneousValues, linkReg),
           composites |-> cached]

\* transformComposite that composes a class on every call and caches it over
\* the entry already there.
transformComposite_Recompose(self, linkReg, value, excludeExtraneousValues) ==
  LET typeList == FilterRegistered(self.types, value.type.l)
      symbol == Join(typeList)
  IN IF Len(typeList) = 0 THEN [ret |-> Returned(value), composites |-> self.composites]
     ELSE
       LET ctors == [i \in 1..Len(typeList) |-> self.types[typeList[i]]]
           cls == [composeClass(ctors) EXCEPT !.serial = FreshSerial(self.composites)]
           cached == (symbol :> cls) @@ self.composites
       IN [ret |-> plainToInstance(cls, value, excludeExtraneousValues, linkReg),
           composites |-> cached]

transformComposite(self, linkReg, value, excludeExtraneousValues) ==
  LET typeList == FilterRegistered(self.types, value.type.l)
      symbol == Join(typeList)
  IN IF Len(typeList) = 0 THEN [ret |-> Returned(value), composites |-> self.composites]
     ELSE IF symbol \in DOMAIN self.composites THEN
       [ret |-> plainToInstance(self.composites[symbol], value,
                                excludeExtraneousValues, linkReg),
        composites |-> self.composites]
     ELSE
       LET ctors == [i \in 1..Len(typeList) |-> self.types[typeList[i]]]
           cls == [composeClass(ctors) EXCEPT !.serial = FreshSerial(self.composites)]
           cached == (symbol :> cls) @@ self.composites
       IN IF ~self.options.composeWithMissingConstructors /\ Len(ctors) # Len(typeList)
          THEN [ret |-> IF self.options.alwaysReturnValueOnTransform
                        THEN Returned(value) ELSE ReturnedUndefined,
                composites |-> cached]
          ELSE [ret |-> plainToInstance(cls, value, excludeExtraneousValues, linkReg),
                composites |-> cached]

\* transformObject that returns a document of a registered single tag as it is.
transformObject_NoInstance(self, linkReg, value, excludeExtraneousValues) ==
  IF value.kind = "null" THEN
    [ret |-> Thrown("TypeError"), composites |-> self.composites]
  ELSE IF value.type.k = "list" /\ self.options.enableCompositeTypes THEN
    transformComposite(self, linkReg, value, excludeExtraneousValues)
  ELSE [ret |-> Returned(value), composites |-> self.composites]

transformObject(self, linkReg, value, excludeExtraneousValues) ==
  IF value.kind = "null" THEN
    \* typeof null is 'object', and reading null.type raises a TypeError
    [ret |-> Thrown("TypeError"), composites |-> self.composites]
  ELSE IF value.type.k = "string" THEN
    IF self.types[value.type.s] # None
    THEN [ret |-> plainToInstance(ClassOf(self.types[value.type.s]), value,
                                  excludeExtraneousValues, linkReg),
          composites |-> self.composites]
    ELSE [ret |-> Returned(value), composites |-> self.composites]
  ELSE IF value.type.k = "list" /\ self.options.enableCompositeTypes THEN
    transformComposite(self, linkReg, value, excludeExtraneousValues)
  ELSE [ret |-> Returned(value), composites |-> self.composites]

RECURSIVE transform(_, _, _, _)
RECURSIVE transformEach(_, _, _, _, _)

\* value.forEach(v => a.push(this.transform(...))): an error ends the loop,
\* and the entries cached before it stay cached.
transformEach(self, linkReg, items, excludeExtraneousValues, a) ==
  IF items = <<>> THEN [ret |-> NewArray(a), composites |-> self.composites]
  ELSE
    LET r == transform(self, linkReg, Head(items), excludeExtraneousValues)
    IN IF r.ret.tag = "throw" THEN r
       ELSE transformEach([self EXCEPT !.composites = r.composites], linkReg,
                          Tail(items), excludeExtraneousValues, Append(a, r.ret))

transform(self, linkReg, value, excludeExtraneousValues) ==
  IF value.kind = "array" THEN
    transformEach(self, linkReg, value.items, excludeExtraneousValues, <<>>)
  ELSE IF TypeOf(value) = "object" THEN
    transformObject(self, linkReg, value, excludeExtraneousValues)
  ELSE [ret |-> Returned(value), composites |-> self.composites]

(***************************************************************************)
(* The transformers: the built-in one (ActivityStreams.transformer, over   *)
(* transformerTypes, with the default options) and one made by the caller. *)
(***************************************************************************)
Transformers == {"transformer", "custom"}

\* The options the caller's transformer is made with.
OptionChoices ==
  {DefaultOptions,
   [DefaultOptions EXCEPT !.convertTextToLinks = FALSE],
   [DefaultOptions EXCEPT !.enableCompositeTypes = FALSE],
   [DefaultOptions EXCEPT !.composeWithMissingConstructors = FALSE],
   [DefaultOptions EXCEPT !.composeWithMissingConstructors = FALSE,
                          !.alwaysReturnValueOnTransform = TRUE]}

Self(t) == [types |-> types[t], composites |-> composites[t], options |-> options[t]]

Nodes == {"a", "b", "c"}

\* The links, and the callers that may have a resolve call under way.
Links == {"l1", "l2"}
Callers == {"p", "q"}

NoLink == [tag |-> "nolink"]
Idle == [tag |-> "idle"]

InitLinks ==
  /\ links = [l \in Links |-> NoLink]
  /\ calls = [p \in Callers |-> Idle]
  /\ lastLink = [op |-> "none"]
  /\ batch = [op |-> "none", tasks |-> <<>>]

InitTransformers ==
  /\ types = [t \in Transformers |-> [tag \in AllTags |-> None]]
  /\ composites = [t \in Transformers |-> EmptyCache]
  /\ options \in {[t \in Transformers |-> IF t = "transformer" THEN DefaultOptions ELSE o] :
                    o \in OptionChoices}
  /\ last = [op |-> "none"]

InitResolvers ==
  /\ next = [n \in Nodes |-> None]
  /\ lastSet = [op |-> "none"]
  /\ kind = [n \in Nodes |-> "Resolver"]
  /\ lastHandle = [op |-> "none"]

Init == InitTransformers /\ InitResolvers /\ InitLinks

\* Transformer.add, with one constructor.
Add(t, ctor) ==
  /\ types' = [types EXCEPT ![t][CtorType(ctor)] = ctor]
  /\ last' = [op |-> "add", t |-> t, ctor |-> ctor]
  /\ UNCHANGED <<composites, options, next, lastSet, kind, lastHandle, linkVars>>

\* Transformer.transform on t.
Transform(t, value, excludeExtraneousValues) ==
  LET r == transform(Self(t), types["transformer"], value, excludeExtraneousValues)
  IN /\ Cardinality(DOMAIN r.composites) <= MaxComposites
     /\ composites' = [composites EXCEPT ![t] = r.composites]
     /\ last' = [op |-> "transform", t |-> t, value |-> value,
                 excludeExtraneousValues |-> excludeExtraneousValues,
                 ret |-> r.ret, before |-> composites[t]]
     /\ UNCHANGED <<types, options, next, lastSet, kind, lastHandle, linkVars>>

\* Transformer.composeClass, called on its own.
ComposeClass(constructors) ==
  /\ last' = [op |-> "composeClass", constructors |-> constructors,
              ret |-> composeClass(constructors)]
  /\ UNCHANGED <<types, composites, options, next, lastSet, kind, lastHandle, linkVars>>

(***************************************************************************)
(* Transformers under every choice of options: scalars and documents of    *)
(* every type shape, with and without a link-bearing field.                *)
(***************************************************************************)
TransformInputs ==
  {<<v, TRUE>> : v \in Scalars \cup PlainDocs \cup LinkDocs}
    \cup {<<v, FALSE>> : v \in {d \in PlainDocs : d.type = TypeString("A")}}

NextTransformers ==
  \/ \E ctor \in {"A1", "B1"} : Add("custom", ctor)
  \/ Add("transformer", "PublicLink")
  \/ \E in \in TransformInputs : Transform("custom", in[1], in[2])

SpecTransformers == Init /\ [][NextTransformers]_vars

(***************************************************************************)
(* Registration and re-registration of a tag, under the default options.   *)
(***************************************************************************)
InitRegistry == Init /\ options["custom"] = DefaultOptions

RegistryInputs ==
  {<<v, e>> : v \in {d \in PlainDocs \cup LinkDocs : d.type.k = "string"}, e \in BOOLEAN}

NextRegistry ==
  \/ \E ctor \in {"A1", "A2", "B1"} : Add("custom", ctor)
  \/ Add("transformer", "PublicLink")
  \/ \E in \in RegistryInputs : Transform("custom", in[1], in[2])

SpecRegistry == InitRegistry /\ [][NextRegistry]_vars

(***************************************************************************)
(* Arrays of values, under the default options.                            *)
(***************************************************************************)
NextArrays ==
  \/ \E ctor \in {"A1", "B1"} : Add("custom", ctor)
  \/ \E value \in Arrays \cup NestedArrays : Transform("custom", value, TRUE)

SpecArrays == InitRegistry /\ [][NextArrays]_vars

(***************************************************************************)
(* composeClass on every list of constructors.                             *)
(***************************************************************************)
NextCompose ==
  \E constructors \in SeqsUpTo(Constructors, MaxCtors) : ComposeClass(constructors)

SpecCompose == InitRegistry /\ [][NextCompose]_vars

(***************************************************************************)
(* The composite cache of one transformer under the default options:      *)
(* documents whose type lists repeat a tag, hold an unregistered tag or a  *)
(* tag with a '-' in its name, and arrays of two composite documents,      *)
(* between registrations and re-registrations.                             *)
(***************************************************************************)
CacheTypeLists ==
  {<<"A">>, <<"A", "A">>, <<"A", "X", "A">>, <<"A-B">>, <<"A", "B">>, <<"B", "A">>}

CacheDoc(type) == Doc(type, Undefined, Str("c"), Str("e"))

CacheDocs == {CacheDoc(TypeList(l)) : l \in CacheTypeLists} \cup {CacheDoc(TypeString("A"))}

CacheArrays ==
  {Arr(<<CacheDoc(TypeList(<<"A", "B">>)), CacheDoc(TypeList(<<"B", "A">>))>>)}

NextCache ==
  \/ \E ctor \in {"A1", "A2", "B1", "AB1"} : Add("custom", ctor)
  \/ \E value \in CacheDocs \cup CacheArrays : Transform("custom", value, TRUE)

SpecCache == InitRegistry /\ [][NextCache]_vars

(***************************************************************************)
(* Resolver.setNext.  The receiver's next field is overwritten and the     *)
(* handler is returned.  A chained call is made on the value the call      *)
(* before it returned, as in a.setNext(b).setNext(c).                      *)
(***************************************************************************)
\* setNext that returns its receiver.
setNext_ReturnsReceiver(nextOf, node, handler) ==
  [next |-> [nextOf EXCEPT ![node] = handler], ret |-> node]

setNext(nextOf, node, handler) ==
  [next |-> [nextOf EXCEPT ![node] = handler], ret |-> handler]

SetNext(node, handler, chained) ==
  LET r == setNext(next, node, handler)
  IN /\ next' = r.next
     /\ lastSet' = [op |-> "setNext", node |-> node, handler |-> handler, ret |-> r.ret,
                    before |-> next, chained |-> chained,
                    first |-> IF chained
                              THEN [node |-> lastSet.node, handler |-> lastSet.handler]
                              ELSE [node |-> None, handler |-> None]]
     /\ UNCHANGED <<types, composites, options, last, kind, lastHandle, linkVars>>

NextResolvers ==
  \/ \E node \in Nodes : \E handler \in Nodes : SetNext(node, handler, FALSE)
  \/ /\ lastSet.op = "setNext"
     /\ \E handler \in Nodes : SetNext(lastSet.ret, handler, TRUE)

SpecResolvers == InitRegistry /\ [][NextResolvers]_vars

(***************************************************************************)
(* Resolver.handle and HttpFetchResolver.handle.  A node is a Resolver     *)
(* with the base handle (DefaultResolver is one), an HttpFetchResolver, or *)
(* a ResolveHandler written by the caller, whose handle resolves the       *)
(* request to a value or fails.  The node "c" is the global default        *)
(* resolver.  What fetch answers and what the caller's handler does are    *)
(* the environment of a call: env[n] is met by node n.                     *)
(***************************************************************************)
MaxStack == 4

resolver == "c"

Hrefs == {"https://h1", "https://h2"}

\* The outcome of a call that never settles.
Pending == [tag |-> "pending"]

\* The text of a body that response.json() cannot decode.
NotJson == [kind |-> "notjson"]

BodyA == Doc(TypeString("A"), Undefined, Str("c"), Str("e"))

NetworkError == [k |-> "error"]
Response(status, body) == [k |-> "response", status |-> status, body |-> body]

Responses ==
  {NetworkError, Response(200, BodyA), Response(200, Null), Response(200, NotJson),
   Response(201, BodyA), Response(404, NotJson)}

\* What a ResolveHandler of the caller does with a request.
HandlerOutcomes == {NewInstance(ClassOf("B1"), [f \in FieldNames |-> FieldUnset]),
                    Thrown("HandlerError")}

NoEnv == [k |-> "none"]

\* The environments of a call: one answer of fetch and one behaviour of
\* the caller's handlers, met by the nodes of the classes they concern.
Envs(kindOf) ==
  {[n \in Nodes |-> CASE kindOf[n] = "HttpFetchResolver" -> r
                      [] kindOf[n] = "ResolveHandler" -> h
                      [] OTHER -> NoEnv] :
     r \in Responses,
     h \in IF \E n \in Nodes : kindOf[n] = "ResolveHandler"
           THEN HandlerOutcomes ELSE {NoEnv}}

\* The built-in transform function: the built-in transformer, with
\* excludeExtraneousValues left at its default.
transformFn(self, value) == transform(self, self.types, value, TRUE)

RECURSIVE Invoke(_, _, _, _, _, _, _)

\* The outcome of a handle that ends here, without a further invocation.
Ends(ctx, ret, log) == [ret |-> ret, log |-> log, composites |-> ctx.self.composites]

\* Resolver.handle that returns the request after its successor has handled it.
baseHandle_ReturnsRequest(ctx, node, href, k, log, stack, seen) ==
  IF ctx.next[node] # None
  THEN [Invoke(ctx, ctx.next[node], href, k, log, stack, seen)
          EXCEPT !.ret = Returned(Str(href))]
  ELSE Ends(ctx, Returned(Str(href)), log)

\* Resolver.handle, run as invocation k of the log.
baseHandle(ctx, node, href, k, log, stack, seen) ==
  IF ctx.next[node] # None
  THEN Invoke(ctx, ctx.next[node], href, k, log, stack, seen)
  ELSE Ends(ctx, Returned(Str(href)), log)

\* The decoded body of a response with status 200, if there is one.
Decoded(resp) == resp.k = "response" /\ resp.status = 200 /\ resp.body # NotJson

\* HttpFetchResolver.handle without the catch block.
httpHandle_NoCatch(ctx, node, href, k, log, stack, seen) ==
  IF ctx.env[node].k = "error" THEN Ends(ctx, Thrown("NetworkError"), log)
  ELSE IF ctx.env[node].status # 200 THEN Ends(ctx, Thrown("Failed to resolve"), log)
  ELSE IF ctx.env[node].body = NotJson THEN Ends(ctx, Thrown("SyntaxError"), log)
  ELSE [log |-> log] @@ transformFn(ctx.self, ctx.env[node].body)

\* The rest of HttpFetchResolver.handle once fetch has settled: t is what
\* transform made of the decoded body.  The frames below the await are gone
\* when the catch block runs; seen holds the nodes whose fetch has failed in
\* this call.
httpSettled(ctx, node, href, k, log, seen, t) ==
  IF Decoded(ctx.env[node]) /\ t.ret.tag # "throw"
  THEN [log |-> log] @@ t
  ELSE baseHandle([ctx EXCEPT !.self.composites =
                                IF Decoded(ctx.env[node]) THEN t.composites ELSE @],
                  node, href, k, log, 1, seen \cup {node})

\* HttpFetchResolver.handle, run as invocation k of the log.
httpHandle(ctx, node, href, k, log, stack, seen) ==
  httpSettled(ctx, node, href, k, log, seen,
              IF Decoded(ctx.env[node]) THEN transformFn(ctx.self, ctx.env[node].body)
              ELSE Ends(ctx, Thrown("Failed to resolve"), log))

\* How invocation k of the log runs.  stack counts the frames of the call
\* stack below it: an invocation that does not fit on the stack raises a
\* RangeError on entry ("overflow").  A fetching node that is reached again
\* in one call fetches the same answer again, and so on without end: the log
\* stops there ("again") and the call never settles.
RunOf(node, stack, seen) ==
  CASE stack >= MaxStack -> "overflow"
    [] node \in seen -> "again"
    [] OTHER -> "done"

\* The handle of the node's class, on invocation k as entered in the log.
Dispatch(ctx, node, href, k, log, stack, seen) ==
  CASE log[k].run = "overflow" -> Ends(ctx, Thrown("RangeError"), log)
    [] log[k].run = "again" -> Ends(ctx, Pending, log)
    [] ctx.kind[node] = "HttpFetchResolver" ->
         httpHandle(ctx, node, href, k, log, stack + 1, seen)
    [] ctx.kind[node] = "ResolveHandler" -> Ends(ctx, ctx.env[node], log)
    [] ctx.kind[node] = "Resolver" -> baseHandle(ctx, node, href, k, log, stack + 1, seen)

\* Invocation k has come to its outcome: the log holds it.
Returns(k, r) ==
  [ret |-> r.ret, log |-> [r.log EXCEPT ![k].ret = r.ret], composites |-> r.composites]

\* One invocation of handle on node, made by invocation caller (0: from outside).
Invoke(ctx, node, href, caller, log, stack, seen) ==
  Returns(Len(log) + 1,
          Dispatch(ctx, node, href, Len(log) + 1,
                   Append(log, [node |-> node, href |-> href, caller |-> caller,
                                run |-> RunOf(node, stack, seen), ret |-> Pending]),
                   stack, seen))

\* handler.handle(href), called from outside the chain.
handle(ctx, node, href) == Invoke(ctx, node, href, 0, <<>>, 0, {})

Context(env) == [kind |-> kind, next |-> next, env |-> env, self |-> Self("transformer")]

\* The state after a handle call that came to r.
Handled(node, href, env, r) ==
  /\ lastHandle' = [op |-> "handle", node |-> node, href |-> href, env |-> env,
                    ret |-> r.ret, log |-> r.log]
  /\ composites' = [composites EXCEPT !["transformer"] = r.composites]
  /\ UNCHANGED <<types, options, last, next, lastSet, kind, linkVars>>

Handle(node, href, env) == Handled(node, href, env, handle(Context(env), node, href))

(***************************************************************************)
(* Chains of every shape, handled under every answer of the environment.   *)
(* Every successor relation can be built by setNext calls, so the chain is *)
(* drawn at the start; the node classes are drawn from two casts.          *)
(***************************************************************************)
KindChoices ==
  {[a |-> "Resolver", b |-> "HttpFetchResolver", c |-> "Resolver"],
   [a |-> "ResolveHandler", b |-> "HttpFetchResolver", c |-> "Resolver"]}

InitHandle ==
  /\ InitTransformers
  /\ options["custom"] = DefaultOptions
  /\ next \in [Nodes -> Nodes \cup {None}]
  /\ lastSet = [op |-> "none"]
  /\ kind \in KindChoices
  /\ lastHandle = [op |-> "none"]
  /\ InitLinks

NextHandle ==
  \/ Add("transformer", "A1")
  \/ \E node \in Nodes : \E href \in Hrefs : \E env \in Envs(kind) : Handle(node, href, env)

SpecHandle == InitHandle /\ [][NextHandle]_vars

(***************************************************************************)
(* Links: the constructor, resolve and toJSON of ActivityStreamsLink.      *)
(* resolve runs up to its await when it is called (it checks the href and  *)
(* calls the handler) and assigns the resolved value when the handler's    *)
(* promise has settled; other operations may run in between.               *)
(***************************************************************************)
Unresolved == [tag |-> "unresolved"]

\* A link-shaped object without href.
LinkObjectNoHref == [kind |-> "object", type |-> TypeString("Link")]

\* What a Link is constructed from.
LinkInitValues == {Str(h) : h \in Hrefs} \cup {LinkObject, LinkObjectNoHref}

\* new Link(initValues)
LinkCtor(initValues) ==
  IF TypeOf(initValues) = "string"
  THEN [href |-> initValues, href_only |-> TRUE, resolved |-> Unresolved]
  ELSE [href |-> IF "href" \in DOMAIN initValues THEN Str(initValues.href) ELSE Undefined,
        href_only |-> FALSE, resolved |-> Unresolved]

\* What resolve awaits: the outcome r of the handler it has called.
Awaits(r) == [outcome |-> r.ret, log |-> r.log, composites |-> r.composites]

\* resolve fails before it calls a handler.
FailsAtOnce(ctx) ==
  [outcome |-> Thrown("Link href is not set"), log |-> <<>>,
   composites |-> ctx.self.composites]

\* Link.resolve that keeps an earlier resolution instead of calling the handler.
resolve_Memoized(ctx, link, customResolver) ==
  IF link.href = Undefined THEN FailsAtOnce(ctx)
  ELSE IF link.resolved # Unresolved THEN
    [outcome |-> link.resolved, log |-> <<>>, composites |-> ctx.self.composites]
  ELSE Awaits(handle(ctx, IF customResolver # None THEN customResolver ELSE resolver,
                     link.href.s))

\* Link.resolve that calls the handler before it looks at the href.
resolve_NoHrefCheck(ctx, link, customResolver) ==
  Awaits(handle(ctx, IF customResolver # None THEN customResolver ELSE resolver,
                IF link.href = Undefined THEN "undefined" ELSE link.href.s))

\* Link.resolve up to its await: the outcome the handler's promise will
\* settle with, and the handle invocations made.
resolve(ctx, link, customResolver) ==
  IF link.href = Undefined THEN FailsAtOnce(ctx)
  ELSE Awaits(handle(ctx, IF customResolver # None THEN customResolver ELSE resolver,
                     link.href.s))

\* Link.resolve that, after its await, keeps a value stored earlier.
settle_KeepsFirst(link, outcome) ==
  IF outcome.tag = "throw" THEN [link |-> link, ret |-> outcome]
  ELSE IF link.resolved # Unresolved THEN [link |-> link, ret |-> link.resolved]
  ELSE [link |-> [link EXCEPT !.resolved = outcome], ret |-> outcome]

\* Link.resolve after its await: a value is stored and read back, and a
\* failure of the handler leaves the link as it is.
settle(link, outcome) ==
  IF outcome.tag = "throw" THEN [link |-> link, ret |-> outcome]
  ELSE LET stored == [link EXCEPT !.resolved = outcome]
       IN [link |-> stored, ret |-> stored.resolved]

\* A field of an instance, read as a value.
FieldValue(field) == IF field.tag = "value" THEN field.v ELSE Undefined

\* A resolved value as transform is given it: an instance is an object whose
\* type is that of its class.
AsValue(resolved) ==
  IF resolved.tag = "value" THEN resolved.v
  ELSE Doc(TypeString(CtorType(resolved.cls.name)),
           FieldValue(resolved.fields["attributedTo"]),
           FieldValue(resolved.fields["content"]),
           FieldValue(resolved.fields["extra"]))

\* JavaScript's truthiness of a stored resolved value.
Truthy(resolved) ==
  /\ resolved # Unresolved
  /\ resolved.tag = "value" =>
       /\ resolved.v.kind \notin {"null", "undefined"}
       /\ resolved.v.kind = "string" => resolved.v.s # ""

IsString(resolved) == resolved.tag = "value" /\ resolved.v.kind = "string"

This == [tag |-> "this"]

\* The output of toJSON when transform has made t of the stored value:
\* transform returns an object of an unregistered type as it is, and the
\* output is then the stored value itself.
Transformed(link, t) ==
  [ret |-> IF t.ret = Returned(AsValue(link.resolved)) THEN link.resolved ELSE t.ret,
   composites |-> t.composites]

\* Link.toJSON that serializes a link built from a link object as itself
\* whenever no object has been resolved.
toJSON_ThisUnlessObject(self, link) ==
  IF Truthy(link.resolved) /\ ~IsString(link.resolved)
  THEN Transformed(link, transformFn(self, AsValue(link.resolved)))
  ELSE IF link.href_only THEN [ret |-> Returned(link.href), composites |-> self.composites]
  ELSE [ret |-> This, composites |-> self.composites]

\* Link.toJSON that prefers the link itself to the bare href.
toJSON_NoHrefOnly(self, link) ==
  IF Truthy(link.resolved) /\ ~IsString(link.resolved)
  THEN Transformed(link, transformFn(self, AsValue(link.resolved)))
  ELSE IF Truthy(link.resolved) THEN [ret |-> link.resolved, composites |-> self.composites]
  ELSE [ret |-> This, composites |-> self.composites]

\* Link.toJSON
toJSON(self, link) ==
  IF Truthy(link.resolved) /\ ~IsString(link.resolved)
  THEN Transformed(link, transformFn(self, AsValue(link.resolved)))
  ELSE IF link.href_only THEN [ret |-> Returned(link.href), composites |-> self.composites]
  ELSE IF Truthy(link.resolved) THEN [ret |-> link.resolved, composites |-> self.composites]
  ELSE [ret |-> This, composites |-> self.composites]

NewLink(l, initValues) ==
  /\ links[l] = NoLink
  /\ links' = [links EXCEPT ![l] = LinkCtor(initValues)]
  /\ lastLink' = [op |-> "new", link |-> l, initValues |-> initValues]
  /\ UNCHANGED <<types, composites, options, last, next, lastSet, kind, lastHandle,
                 calls, batch>>

\* The state after a resolve call that came to r: with the href unset the
\* call has failed at once, and otherwise it awaits the handler.
ResolveCalled(p, l, customResolver, r) ==
  /\ composites' = [composites EXCEPT !["transformer"] = r.composites]
  /\ IF r.outcome = Thrown("Link href is not set") /\ r.log = <<>>
     THEN /\ lastLink' = [op |-> "resolve", caller |-> p, link |-> l,
                          customResolver |-> customResolver, log |-> r.log,
                          ret |-> r.outcome, before |-> links[l]]
          /\ UNCHANGED calls
     ELSE /\ calls' = [calls EXCEPT ![p] =
                         [link |-> l, customResolver |-> customResolver,
                          href |-> links[l].href, outcome |-> r.outcome,
                          log |-> r.log]]
          /\ lastLink' = [op |-> "call", caller |-> p, link |-> l]
  /\ UNCHANGED <<types, options, last, next, lastSet, kind, lastHandle, links, batch>>

\* Caller p calls links[l].resolve(customResolver).
ResolveCall(p, l, customResolver, env) ==
  /\ links[l] # NoLink
  /\ calls[p] = Idle
  /\ ResolveCalled(p, l, customResolver, resolve(Context(env), links[l], customResolver))

\* The state after the handler's promise of call c of caller p has settled with s.
ResolveSettled(p, c, s) ==
  /\ links' = [links EXCEPT ![c.link] = s.link]
  /\ lastLink' = [op |-> "resolve", caller |-> p, link |-> c.link,
                  customResolver |-> c.customResolver, log |-> c.log,
                  ret |-> s.ret, call |-> c, before |-> links[c.link]]
  /\ calls' = [calls EXCEPT ![p] = Idle]
  /\ UNCHANGED <<types, composites, options, last, next, lastSet, kind, lastHandle, batch>>

\* The handler's promise of caller p's resolve call settles.
ResolveSettle(p) ==
  /\ calls[p] # Idle
  /\ calls[p].outcome # Pending
  /\ ResolveSettled(p, calls[p], settle(links[calls[p].link], calls[p].outcome))

\* The state after a toJSON call that came to r.
Serialized(l, r) ==
  /\ lastLink' = [op |-> "toJSON", link |-> l, ret |-> r.ret]
  /\ composites' = [composites EXCEPT !["transformer"] = r.composites]
  /\ UNCHANGED <<types, options, last, next, lastSet, kind, lastHandle, links, calls,
                 batch>>

ToJSON(l) ==
  /\ links[l] # NoLink
  /\ Serialized(l, toJSON(Self("transformer"), links[l]))

(***************************************************************************)
(* One link and one caller.  The caller's own handler is a, a fetching     *)
(* resolver is b, and the global default chain may be given b as its       *)
(* successor.                                                              *)
(***************************************************************************)
LinkCast == [a |-> "ResolveHandler", b |-> "HttpFetchResolver", c |-> "Resolver"]

InitLinkChain ==
  /\ InitTransformers
  /\ options["custom"] = DefaultOptions
  /\ next = [n \in Nodes |-> None]
  /\ lastSet = [op |-> "none"]
  /\ kind = LinkCast
  /\ lastHandle = [op |-> "none"]
  /\ InitLinks

NextLinks ==
  \/ \E initValues \in LinkInitValues : NewLink("l1", initValues)
  \/ \E customResolver \in {None, "a", "b"} : \E env \in Envs(kind) :
       ResolveCall("p", "l1", customResolver, env)
  \/ ResolveSettle("p")
  \/ ToJSON("l1")
  \/ Add("transformer", "A1")
  \/ SetNext(resolver, "b", FALSE)

SpecLinks == InitLinkChain /\ [][NextLinks]_vars

(***************************************************************************)
(* One link and two callers, whose resolve calls may overlap: either may   *)
(* call while the other's handler has not settled, each with a resolver    *)
(* and a handler outcome of its own, and the calls complete in any order.  *)
(***************************************************************************)
NextOverlap ==
  \/ \E initValues \in {Str("https://h1"), LinkObject} : NewLink("l1", initValues)
  \/ \E p \in Callers : \E customResolver \in {None, "a", "b"} : \E env \in Envs(kind) :
       ResolveCall(p, "l1", customResolver, env)
  \/ \E p \in Callers : ResolveSettle(p)

SpecOverlap == InitLinkChain /\ [][NextOverlap]_vars

(***************************************************************************)
(* ResolvableArray.resolve.  The source holds two definitions of it: the   *)
(* first ("checked") passes an element without a resolve function through, *)
(* the second ("unchecked") calls item.resolve on every element.  The      *)
(* mapping callback starts every element's resolution when resolve is      *)
(* called; the resolutions settle one by one, in any order, and            *)
(* Promise.all settles the result.                                         *)
(***************************************************************************)
ArrayDefs == {"checked", "unchecked"}

\* The elements of an array: a link, a plain string, an object instance.
LinkRef(l) == [k |-> "link", id |-> l]
PlainItem == [k |-> "plain", v |-> Str("plain")]
ObjectItem == [k |-> "object"]

\* typeof item.resolve === 'function'
HasResolve(item) == item.k \in {"link", "object"}

ItemLists ==
  {<<>>, <<PlainItem>>, <<LinkRef("l1")>>, <<LinkRef("l2"), LinkRef("l1")>>,
   <<ObjectItem, LinkRef("l1")>>, <<LinkRef("l1"), PlainItem, LinkRef("l2")>>}

\* The mapping callback of either definition on one element, up to its
\* await: the outcome the element's promise will settle with.
mapItem(ctx, linksOf, def, item, customResolver) ==
  IF item.k = "link" THEN resolve(ctx, linksOf[item.id], customResolver)
  ELSE IF item.k = "object" \/ def = "checked" THEN
    [outcome |-> Returned(item), log |-> <<>>, composites |-> ctx.self.composites]
  ELSE
    [outcome |-> Thrown("TypeError"), log |-> <<>>, composites |-> ctx.self.composites]

RECURSIVE mapItems(_, _, _, _, _, _)

\* The callback has run on one more element and come to r.
mapNext(ctx, linksOf, def, items, customResolver, tasks, r) ==
  mapItems([ctx EXCEPT !.self.composites = r.composites], linksOf, def, items,
           customResolver,
           Append(tasks, [state |-> "pending", outcome |-> r.outcome, log |-> r.log]))

\* this.map(...): the callback runs on the elements in index order.
mapItems(ctx, linksOf, def, items, customResolver, tasks) ==
  IF Len(tasks) = Len(items) THEN [tasks |-> tasks, composites |-> ctx.self.composites]
  ELSE mapNext(ctx, linksOf, def, items, customResolver, tasks,
               mapItem(ctx, linksOf, def, items[Len(tasks) + 1], customResolver))

NotSettled == [tag |-> "pending"]
Fulfilled(values) == [tag |-> "fulfilled", values |-> values]
Rejected(reason) == [tag |-> "rejected", reason |-> reason]

\* An aggregation that leaves out the elements whose resolution failed.
promiseAll_Partial(result, tasks, i) ==
  IF \A j \in 1..Len(tasks) : tasks[j].state # "pending"
  THEN Fulfilled(SelectSeq([j \in 1..Len(tasks) |-> tasks[j].outcome],
                           LAMBDA o : o.tag # "throw"))
  ELSE result

\* Promise.all, after the promise of element i has settled (i = 0: when it
\* is called): the first rejection rejects the result, and the result is
\* fulfilled with the values in index order once every promise is fulfilled.
promiseAll(result, tasks, i) ==
  IF result.tag # "pending" THEN result
  ELSE IF i > 0 /\ tasks[i].state = "rejected" THEN Rejected(tasks[i].outcome)
  ELSE IF \A j \in 1..Len(tasks) : tasks[j].state = "fulfilled"
  THEN Fulfilled([j \in 1..Len(tasks) |-> tasks[j].outcome])
  ELSE result

\* The state after the mapping callback has run on every element: r holds
\* the elements' promises.
ArrayMapped(def, items, customResolver, r) ==
  /\ batch' = [op |-> "resolve", def |-> def, items |-> items,
               customResolver |-> customResolver, tasks |-> r.tasks,
               result |-> promiseAll(NotSettled, r.tasks, 0), order |-> <<>>]
  /\ composites' = [composites EXCEPT !["transformer"] = r.composites]
  /\ UNCHANGED <<types, options, last, next, lastSet, kind, lastHandle, links, calls,
                 lastLink>>

\* new ResolvableArray(...items).resolve(customResolver), up to its await.
ArrayResolve(def, items, customResolver, env) ==
  /\ \A i \in 1..Len(batch.tasks) : batch.tasks[i].state # "pending"
  /\ \A i \in 1..Len(items) : items[i].k = "link" => links[items[i].id] # NoLink
  /\ ArrayMapped(def, items, customResolver,
                 mapItems(Context(env), links, def, items, customResolver, <<>>))

\* The promises after that of element i has settled with s.
TasksSettled(i, s) ==
  [batch.tasks EXCEPT ![i] =
     [state |-> IF s.ret.tag = "throw" THEN "rejected" ELSE "fulfilled",
      outcome |-> s.ret, log |-> @.log]]

\* The state after the promise of element i has settled with s.
ElementSettled(i, s, tasks) ==
  /\ batch' = [batch EXCEPT !.tasks = tasks,
                            !.result = promiseAll(batch.result, tasks, i),
                            !.order = Append(@, i)]
  /\ IF batch.items[i].k = "link"
     THEN /\ links' = [links EXCEPT ![batch.items[i].id] = s.link]
          /\ lastLink' = [op |-> "element", link |-> batch.items[i].id, index |-> i]
     ELSE UNCHANGED <<links, lastLink>>
  /\ UNCHANGED <<types, composites, options, last, next, lastSet, kind, lastHandle, calls>>

\* What the promise of element i settles with: a link's resolve stores its value.
SettleOf(i) ==
  IF batch.items[i].k = "link"
  THEN settle(links[batch.items[i].id], batch.tasks[i].outcome)
  ELSE [ret |-> batch.tasks[i].outcome]

\* The promise of element i settles.
TaskSettle(i) ==
  /\ batch.op = "resolve"
  /\ i \in 1..Len(batch.tasks)
  /\ batch.tasks[i].state = "pending"
  /\ batch.tasks[i].outcome # Pending
  /\ ElementSettled(i, SettleOf(i), TasksSettled(i, SettleOf(i)))

(***************************************************************************)
(* Arrays of two links, a plain string and an object, resolved through the *)
(* global default resolver or through the caller's handler.                *)
(***************************************************************************)
BatchEnvs == {env \in Envs(kind) : env["b"] = NetworkError}

NextBatch ==
  \/ \E initValues \in {Str("https://h1"), LinkObjectNoHref} : NewLink("l1", initValues)
  \/ NewLink("l2", Str("https://h2"))
  \/ \E def \in ArrayDefs : \E items \in ItemLists :
       \E customResolver \in {None, "a"} : \E env \in BatchEnvs :
         ArrayResolve(def, items, customResolver, env)
  \/ \E i \in 1..Len(batch.tasks) : TaskSettle(i)

SpecBatch == InitLinkChain /\ [][NextBatch]_vars

(***************************************************************************)
(* Properties of Transformer.transform.                                    *)
(***************************************************************************)
LastTransform == last.op = "transform"
LastDocument == LastTransform /\ last.value.kind = "object"

\* The registered tags of the last document's type list, in order.
LastRegisteredTags ==
  SelectSeq(last.value.type.l, LAMBDA tag : types[last.t][tag] # None)

\* The last document's type is one unregistered tag, or a list holding no registered tag.
LastUnregistered ==
  /\ LastDocument
  /\ \/ last.value.type.k = "string" /\ types[last.t][last.value.type.s] = None
     \/ /\ last.value.type.k = "list"
        /\ \A i \in 1..Len(last.value.type.l) : types[last.t][last.value.type.l[i]] = None

\* C1: a document whose type is an unregistered tag, or a list of tags none of which
\* is registered, is returned as it is (the very same value), no error is raised and
\* the composite cache gets no entry.
C1_UnregisteredIsIdentity ==
  LastUnregistered =>
    /\ last.ret = Returned(last.value)
    /\ composites[last.t] = last.before

\* C1 witness: a list of unregistered tags was passed through by a transformer
\* that has registered types and a cache that is not empty.
C1_Witness ==
  /\ LastUnregistered
  /\ last.value.type = TypeList(<<"X">>)
  /\ types[last.t]["A"] # None
  /\ DOMAIN last.before # {}
  /\ last.ret = Returned(last.value)

\* C3 (as claimed): every input that is not an object (string, number, boolean, null,
\* undefined) and every object whose type is absent or neither a string nor a list is
\* returned unchanged, without an error.
C3_NeverRaises ==
  (/\ LastTransform
   /\ \/ last.value.kind \in {"string", "number", "boolean", "null", "undefined"}
      \/ last.value.kind = "object" /\ last.value.type.k \in {"absent", "number"})
    => last.ret = Returned(last.value)

\* The last document names exactly the registered tags A and B, in this order, and
\* composite types are enabled.
LastComposite(tags) ==
  /\ LastDocument
  /\ last.value.type.k = "list"
  /\ options[last.t].enableCompositeTypes
  /\ LastRegisteredTags = tags

\* C5: every document whose registered tags are [A, B] is populated from one and the
\* same composite class, the one cached when the first such document came; a cached
\* entry is never evicted or replaced; and the class for [A, B] is not the class
\* for [B, A].
C5_CompositeIdentity ==
  /\ LastTransform =>
       \A key \in DOMAIN last.before :
         key \in DOMAIN composites[last.t] /\ composites[last.t][key] = last.before[key]
  /\ (LastComposite(<<"A", "B">>) /\ last.ret.tag = "instance") =>
       /\ "A-B" \in DOMAIN composites[last.t]
       /\ last.ret.cls = composites[last.t]["A-B"]
  /\ \A t \in Transformers :
       {"A-B", "B-A"} \subseteq DOMAIN composites[t] =>
         composites[t]["A-B"].serial # composites[t]["B-A"].serial

\* C5 witness: a second document with tags [A, B] was populated from the class cached
\* before the call, while a class for [B, A] is cached as well.
C5_Witness ==
  /\ LastComposite(<<"A", "B">>)
  /\ last.ret.tag = "instance"
  /\ {"A-B", "B-A"} \subseteq DOMAIN last.before
  /\ last.ret.cls = last.before["A-B"]

\* The last document's type list holds a registered and an unregistered tag.
LastPartial ==
  /\ LastDocument
  /\ last.value.type.k = "list"
  /\ \E i \in 1..Len(last.value.type.l) : types[last.t][last.value.type.l[i]] # None
  /\ \E i \in 1..Len(last.value.type.l) : types[last.t][last.value.type.l[i]] = None

\* C8 (as claimed): with composeWithMissingConstructors false, a document whose type
\* list holds a registered and an unregistered tag is never populated: the raw value
\* comes back when alwaysReturnValueOnTransform is true and undefined when it is false.
C8_NoPartialComposite ==
  (/\ LastPartial
   /\ options[last.t].enableCompositeTypes
   /\ ~options[last.t].composeWithMissingConstructors)
    => last.ret = IF options[last.t].alwaysReturnValueOnTransform
                  THEN Returned(last.value) ELSE ReturnedUndefined

\* The last document has a registered single tag whose class declares the link-bearing
\* field, that field holds a bare URL string, and the built-in transformer knows Link.
LastBareUrl ==
  /\ LastDocument
  /\ last.value.type.k = "string"
  /\ types[last.t][last.value.type.s] # None
  /\ Recognized(ClassOf(types[last.t][last.value.type.s]), "attributedTo")
  /\ last.value.attributedTo = Str("http://h")
  /\ types["transformer"]["Link"] # None

\* C9 (as claimed): with convertTextToLinks true a bare URL string in a link-bearing
\* field becomes an href-only Link, and with convertTextToLinks false it stays a string.
C9_ConvertTextToLinks ==
  LastBareUrl =>
    /\ last.ret.tag = "instance"
    /\ last.ret.fields["attributedTo"] =
         IF options[last.t].convertTextToLinks
         THEN NewLinkFromString(types["transformer"]["Link"], "http://h")
         ELSE Returned(Str("http://h"))

\* The last document has a single tag that is registered; BoundClass is the class
\* the tag is bound to now.
LastSingleRegistered ==
  /\ LastDocument
  /\ last.value.type.k = "string"
  /\ types[last.t][last.value.type.s] # None

BoundClass == ClassOf(types[last.t][last.value.type.s])

\* A string the built-in transformer's plainToLink does not accept.
RejectedString(v) ==
  /\ v.kind = "string"
  /\ \/ types["transformer"]["Link"] = None
     \/ ~(StartsWith(v.s, "http://") \/ StartsWith(v.s, "https://"))

\* The link-bearing field of the last document holds such a string, alone or in a list.
LastLinkRejected ==
  /\ Recognized(BoundClass, "attributedTo")
  /\ \/ RejectedString(last.value.attributedTo)
     \/ /\ last.value.attributedTo.kind = "array"
        /\ \E i \in 1..Len(last.value.attributedTo.items) :
             RejectedString(last.value.attributedTo.items[i])

\* The fields of the instance: a field the document holds is kept when the class
\* declares it, or when extraneous values are not excluded, and dropped otherwise;
\* a kept field that is not link-bearing holds the document's value.
LastFieldsPopulated ==
  \A f \in FieldNames :
    LET kept == /\ last.value[f] # Undefined
                /\ Recognized(BoundClass, f) \/ ~last.excludeExtraneousValues
    IN /\ (last.ret.fields[f] # FieldUnset) <=> kept
       /\ (kept /\ f \notin LinkFields) => last.ret.fields[f] = Returned(last.value[f])

\* C2 (as claimed): a document with a registered single tag comes back as a new
\* instance of the class bound to the tag now, populated from the document.
C2_SingleTagInstance ==
  LastSingleRegistered =>
    /\ last.ret.tag = "instance"
    /\ last.ret.cls = BoundClass
    /\ LastFieldsPopulated

\* C2 (amended): a document with a registered single tag comes back as a new instance
\* of the class bound to the tag now, populated from the document, unless its
\* link-bearing field holds a string plainToLink rejects: then the call raises the
\* Invalid URL error.
C2_SingleTagInstanceOrInvalidUrl ==
  LastSingleRegistered =>
    IF LastLinkRejected
    THEN last.ret = Thrown("Invalid URL")
    ELSE /\ last.ret.tag = "instance"
         /\ last.ret.cls = BoundClass
         /\ LastFieldsPopulated

\* C2 witness: tag A was registered again, with A2, and a document of type A came back
\* as an instance of A2 whose undeclared field was dropped.
C2_Witness ==
  /\ LastSingleRegistered
  /\ last.value.type.s = "A"
  /\ types[last.t]["A"] = "A2"
  /\ last.ret.tag = "instance"
  /\ last.ret.cls.name = "A2"
  /\ last.value.extra # Undefined
  /\ last.ret.fields["extra"] = FieldUnset
  /\ last.ret.fields["content"] = Returned(Str("c"))

\* C4 (as claimed): an input array comes back as a new array of the same length whose
\* element i is transform of the input's element i.
C4_ElementWise ==
  (LastTransform /\ last.value.kind = "array") =>
    /\ last.ret.tag = "array"
    /\ Len(last.ret.items) = Len(last.value.items)
    /\ \A i \in 1..Len(last.value.items) :
         last.ret.items[i] =
           transform(Self(last.t), types["transformer"], last.value.items[i],
                     last.excludeExtraneousValues).ret

(***************************************************************************)
(* Properties of composeClass.                                             *)
(***************************************************************************)
LastCompose == last.op = "composeClass"

\* C6: when two constituents define a member of the same name directly, the composed
\* class has the definition of the later one: of the last constituent that defines it.
C6_LastDefinitionWins ==
  LastCompose =>
    \A m \in MemberNames :
      \A j \in 1..Len(last.constructors) :
        (/\ OwnMembers(last.constructors[j])[m] # None
         /\ \A k \in (j + 1)..Len(last.constructors) :
              OwnMembers(last.constructors[k])[m] = None)
          => Members(last.ret)[m] = OwnMembers(last.constructors[j])[m]

\* C6 witness: A1 and B1 both define x and content, and the class composed of
\* [A1, B1] has B1's.
C6_Witness ==
  /\ LastCompose
  /\ last.constructors = <<"A1", "B1">>
  /\ Members(last.ret)["x"] = "B1.x"
  /\ Members(last.ret)["content"] = "B1.content"

\* C7 (as claimed): the composed class has every member of every constituent, the
\* members a constituent inherits from its base included.
C7_UnionWithInherited ==
  LastCompose =>
    \A i \in 1..Len(last.constructors) : \A m \in MemberNames :
      Members(ClassOf(last.constructors[i]))[m] # None => Members(last.ret)[m] # None

\* C7 (amended): the composed class has exactly the members that some constituent
\* defines directly; a member a constituent only inherits is not carried over.
C7_UnionOfOwn ==
  LastCompose =>
    \A m \in MemberNames :
      (Members(last.ret)[m] # None) <=>
        \E i \in 1..Len(last.constructors) : OwnMembers(last.constructors[i])[m] # None

\* C7 witness: the class composed of [A1, B1] has the members A1 and B1 define
\* directly and lacks resolve, which B1 inherits.
C7_Witness ==
  /\ LastCompose
  /\ last.constructors = <<"A1", "B1">>
  /\ Members(last.ret)["attributedTo"] = "A1.attributedTo"
  /\ Members(ClassOf("B1"))["resolve"] # None
  /\ Members(last.ret)["resolve"] = None

(***************************************************************************)
(* Properties of Resolver.setNext.                                         *)
(***************************************************************************)
LastSetNext == lastSet.op = "setNext"

\* C10: setNext(h) makes h the successor of the receiver, whatever the receiver's
\* successor was, changes no other node and returns h; so after a.setNext(b).setNext(c)
\* with a, b and c distinct, a's successor is b and b's is c, and a's is not c.
C10_SetNext ==
  LastSetNext =>
    /\ next[lastSet.node] = lastSet.handler
    /\ \A n \in Nodes \ {lastSet.node} : next[n] = lastSet.before[n]
    /\ lastSet.ret = lastSet.handler
    /\ lastSet.chained =>
         /\ lastSet.node = lastSet.first.handler
         /\ lastSet.first.node # lastSet.first.handler =>
              /\ next[lastSet.first.node] = lastSet.first.handler
              /\ lastSet.handler # lastSet.first.handler =>
                   next[lastSet.first.node] # lastSet.handler

\* C10 witness: a.setNext(b).setNext(c) on three distinct nodes, where b had a
\* successor before, which the call discarded.
C10_Witness ==
  /\ LastSetNext
  /\ lastSet.chained
  /\ lastSet.first = [node |-> "a", handler |-> "b"]
  /\ lastSet.handler = "c"
  /\ lastSet.before["b"] = "a"
  /\ next = [a |-> "b", b |-> "c", c |-> None]

(***************************************************************************)
(* Properties of Resolver.handle and HttpFetchResolver.handle.             *)
(***************************************************************************)
LastHandle == lastHandle.op = "handle"

\* The invocations that invocation k of the last handle call made itself.
CallsOf(k) == {j \in 1..Len(lastHandle.log) : lastHandle.log[j].caller = k}

\* The invocations of the last handle call that ran the handle of class cls.
Ran(cls) ==
  {k \in 1..Len(lastHandle.log) :
     kind[lastHandle.log[k].node] = cls /\ lastHandle.log[k].run = "done"}

\* Invocation k of the last handle call did what the base handle does.
Delegated(k) ==
  LET e == lastHandle.log[k]
  IN IF next[e.node] = None
     THEN e.ret = Returned(Str(e.href)) /\ CallsOf(k) = {}
     ELSE /\ Cardinality(CallsOf(k)) = 1
          /\ \A j \in CallsOf(k) :
               /\ lastHandle.log[j].node = next[e.node]
               /\ lastHandle.log[j].href = e.href
               /\ e.ret = lastHandle.log[j].ret

\* What the built-in transform makes of the body BodyA: the body itself
\* while its type is not registered, and an instance once it is.
TransformedBodyA(ret) ==
  \/ ret = Returned(BodyA)
  \/ ret.tag = "instance" /\ ret.cls.name = "A1"

\* C11: the base Resolver.handle of a node without a successor returns the
\* request itself and calls nothing; that of a node with a successor calls
\* the successor's handle exactly once, with the same request, and its
\* outcome is the successor's outcome, a value or a failure.  In the chain
\* a -> b -> c with a fetching b and a terminal c, a.handle(req) is what b
\* resolved when b resolves and req when it does not.
C11_BaseHandle ==
  LastHandle =>
    /\ \A k \in Ran("Resolver") : Delegated(k)
    /\ ( /\ lastHandle.node = "a" /\ kind["a"] = "Resolver"
         /\ next = [a |-> "b", b |-> "c", c |-> None] )
       => IF lastHandle.env["b"] = Response(200, BodyA)
          THEN TransformedBodyA(lastHandle.ret)
          ELSE lastHandle.ret = Returned(Str(lastHandle.href))

\* A base node with a successor has handed on what its successor resolved.
C11_Witness ==
  /\ LastHandle
  /\ kind[lastHandle.node] = "Resolver"
  /\ next[lastHandle.node] # None
  /\ lastHandle.ret.tag = "instance"
  /\ Len(lastHandle.log) >= 2

\* The answers of fetch that C12 is about: a transport error, a status that
\* is no success, a body that cannot be decoded.
FetchFailed(resp) ==
  \/ resp.k = "error"
  \/ resp.k = "response" /\ resp.status \notin 200..299
  \/ resp.k = "response" /\ resp.body = NotJson

\* C12: HttpFetchResolver.handle does not fail because of the fetch: on a
\* status that is no success, a transport error or an undecodable body its
\* outcome is that of the base handle for the same href, the successor's
\* outcome when a successor is set and the href itself when none is, so
\* that a 404 without a successor yields the href.
C12_FetchFailureDelegates ==
  LastHandle =>
    \A k \in Ran("HttpFetchResolver") :
      FetchFailed(lastHandle.env[lastHandle.log[k].node]) =>
        /\ Delegated(k)
        /\ lastHandle.log[k].ret.tag = "throw" =>
             \E j \in CallsOf(k) : lastHandle.log[j].ret = lastHandle.log[k].ret

\* A fetching node without a successor has met a 404 and returned the href.
C12_Witness ==
  /\ LastHandle
  /\ kind[lastHandle.node] = "HttpFetchResolver"
  /\ next[lastHandle.node] = None
  /\ lastHandle.env[lastHandle.node] = Response(404, NotJson)
  /\ lastHandle.ret = Returned(Str(lastHandle.href))

\* C13: HttpFetchResolver.handle resolves exactly the responses whose status
\* is in the 2xx range: for a 2xx response with a JSON body its outcome is
\* transform(body) and it calls no successor, and for any other status it
\* does what the base handle does.
C13_ResolvedIff2xx ==
  LastHandle =>
    \A k \in Ran("HttpFetchResolver") :
      LET resp == lastHandle.env[lastHandle.log[k].node]
      IN resp.k = "response" =>
           IF resp.status \in 200..299
           THEN resp.body # NotJson =>
                  /\ CallsOf(k) = {}
                  /\ resp.body = BodyA => TransformedBodyA(lastHandle.log[k].ret)
           ELSE Delegated(k)

(***************************************************************************)
(* Properties of links.  lastLink is overwritten by every operation that   *)
(* changes a link, so while it holds an operation the link is as that      *)
(* operation left it.                                                      *)
(***************************************************************************)
LastResolve == lastLink.op = "resolve"
LastToJSON == lastLink.op = "toJSON"

\* The resolve call c has invoked handle exactly once from outside the chain:
\* on its custom resolver if it has one and on the global default resolver
\* otherwise, with the link's href, and it awaits that invocation's outcome.
OneInvocation(c) ==
  LET outside == {k \in 1..Len(c.log) : c.log[k].caller = 0}
  IN /\ Cardinality(outside) = 1
     /\ \A k \in outside :
          /\ c.log[k].node = IF c.customResolver # None THEN c.customResolver ELSE resolver
          /\ Str(c.log[k].href) = c.href
          /\ c.log[k].ret = c.outcome

\* C14: Link.resolve on a link whose href is unset fails at once: no handle
\* is invoked, neither the custom resolver's nor the global default's, no
\* call is left awaiting a handler, and the link's resolved value and
\* href-only flag are as they were.
C14_HrefUnsetFails ==
  /\ \A p \in Callers : calls[p] # Idle => links[calls[p].link].href # Undefined
  /\ (LastResolve /\ links[lastLink.link].href = Undefined) =>
       /\ lastLink.ret = Thrown("Link href is not set")
       /\ lastLink.log = <<>>
       /\ calls[lastLink.caller] = Idle
       /\ links[lastLink.link] = lastLink.before

\* resolve has failed on a link without href, called with a custom resolver.
C14_Witness ==
  /\ LastResolve
  /\ links[lastLink.link].href = Undefined
  /\ lastLink.customResolver = "a"
  /\ lastLink.ret.tag = "throw"

\* C15: every call of Link.resolve on a link with href set, also one made
\* after an earlier resolution, invokes handle(href) exactly once, on the
\* custom resolver when one is given and on the global default chain
\* otherwise, overwrites the stored resolved value with the outcome, and
\* returns that outcome.
C15_EveryCallStoresOutcome ==
  /\ \A p \in Callers : calls[p] # Idle => OneInvocation(calls[p])
  /\ (LastResolve /\ links[lastLink.link].href # Undefined) =>
       /\ OneInvocation(lastLink.call)
       /\ links[lastLink.link].resolved = lastLink.call.outcome
       /\ lastLink.ret = lastLink.call.outcome

\* C15, amended: as C15 when the handler yields a value; when the handler
\* fails, the call fails with the handler's failure and the stored resolved
\* value stays as it was.
C15_EveryCallStoresValue ==
  /\ \A p \in Callers : calls[p] # Idle => OneInvocation(calls[p])
  /\ (LastResolve /\ links[lastLink.link].href # Undefined) =>
       /\ OneInvocation(lastLink.call)
       /\ lastLink.ret = lastLink.call.outcome
       /\ links[lastLink.link].resolved =
            IF lastLink.call.outcome.tag = "throw" THEN lastLink.before.resolved
            ELSE lastLink.call.outcome

\* A call made on a link that was resolved before has stored another value.
C15_Witness ==
  /\ LastResolve
  /\ links[lastLink.link].href # Undefined
  /\ lastLink.before.resolved # Unresolved
  /\ lastLink.ret.tag = "instance"
  /\ lastLink.before.resolved # lastLink.ret
  /\ links[lastLink.link].resolved = lastLink.ret

\* The output holds what the resolved value holds: it is that value, or an
\* instance of its type with its content.
TransformOf(ret, resolved) ==
  \/ ret = resolved
  \/ /\ ret.tag = "instance"
     /\ AsValue(ret).type = AsValue(resolved).type
     /\ AsValue(ret).content = AsValue(resolved).content

\* C16: toJSON of a link, in every resolution state and for either value of
\* the href-only flag: the stored resolved value if there is one and it is
\* not a bare string; otherwise the bare href if the link was built from a
\* bare string; otherwise the link itself, also when a link built from a
\* link object holds a bare string as its resolved value.
C16_Serialization ==
  LastToJSON =>
    LET link == links[lastLink.link]
    IN IF link.resolved # Unresolved /\ ~IsString(link.resolved)
       THEN lastLink.ret = link.resolved
       ELSE IF link.href_only THEN lastLink.ret = Returned(link.href)
       ELSE lastLink.ret = This

\* C16, amended: the built-in transform of the stored resolved value if
\* there is one and it is not a bare string; otherwise the bare href if the
\* link was built from a bare string; otherwise the stored resolved string
\* if there is one, and the link itself only when nothing is stored.
C16_SerializationOrResolvedString ==
  LastToJSON =>
    LET link == links[lastLink.link]
    IN IF link.resolved # Unresolved /\ ~IsString(link.resolved)
       THEN TransformOf(lastLink.ret, link.resolved)
       ELSE IF link.href_only THEN lastLink.ret = Returned(link.href)
       ELSE IF IsString(link.resolved) THEN lastLink.ret = link.resolved
       ELSE lastLink.ret = This

\* A link built from a link object, resolved to a bare string, serialized.
C16_Witness ==
  /\ LastToJSON
  /\ ~links[lastLink.link].href_only
  /\ IsString(links[lastLink.link].resolved)
  /\ lastLink.ret = links[lastLink.link].resolved

\* C17: a Link constructed from the bare string s has href s and the
\* href-only flag set, and while it is unresolved its toJSON is s; a Link
\* constructed from a link object has the href-only flag cleared.
C17_RoundTrip ==
  /\ lastLink.op = "new" =>
       LET link == links[lastLink.link]
       IN IF lastLink.initValues.kind = "string"
          THEN link.href = lastLink.initValues /\ link.href_only
          ELSE ~link.href_only
  /\ \A l \in Links : (links[l] # NoLink /\ links[l].href_only) =>
       links[l].href.kind = "string"
  /\ LastToJSON =>
       LET link == links[lastLink.link]
       IN (link.href_only /\ link.resolved = Unresolved) =>
            lastLink.ret = Returned(link.href)

\* An unresolved link built from a bare string has been serialized.
C17_Witness ==
  /\ LastToJSON
  /\ links[lastLink.link].href_only
  /\ links[lastLink.link].resolved = Unresolved
  /\ lastLink.ret = Returned(Str("https://h2"))

(***************************************************************************)
(* The shape of the successor relation.                                    *)
(***************************************************************************)
\* Following successors from node n reaches a node without a successor
\* within the given number of steps.
RECURSIVE ReachesTerminal(_, _)
ReachesTerminal(n, steps) ==
  \/ next[n] = None
  \/ steps > 0 /\ ReachesTerminal(next[n], steps - 1)

\* C20: after any sequence of setNext calls the successor relation has no
\* cycle: following successors from any node reaches a terminal node in
\* finitely many steps, so that the base handle on any node returns.
C20_NoCycle == \A n \in Nodes : ReachesTerminal(n, Cardinality(Nodes))

(***************************************************************************)
(* Properties of ResolvableArray.resolve.                                  *)
(***************************************************************************)
LastBatch == batch.op = "resolve"

AllSettled == \A i \in 1..Len(batch.tasks) : batch.tasks[i].state # "pending"

\* The resolution of element i has failed.
ElementFailed(i) ==
  \/ batch.tasks[i].state = "rejected"
  \/ batch.tasks[i].outcome.tag = "throw"

\* What element i of the array resolves to: an object to itself, and a link
\* to what its handler made of its href, which is the href itself when the
\* global default resolver passes it through.
IsResolutionOf(value, i) ==
  LET item == batch.items[i]
  IN IF item.k = "object" THEN value = Returned(item)
     ELSE /\ value = links[item.id].resolved
          /\ batch.customResolver = None => value = Returned(links[item.id].href)
          /\ batch.customResolver = "a" => value \in HandlerOutcomes

\* C18: ResolvableArray.resolve(r) yields a new sequence of the length of
\* the array whose index i holds the resolution of element i when that
\* element has a resolve function and the element itself when it has none,
\* as a plain string, in whatever order the resolutions settle.
C18_ArrayElementWise ==
  (LastBatch /\ AllSettled
     /\ \A i \in 1..Len(batch.items) : HasResolve(batch.items[i]) => ~ElementFailed(i)) =>
    /\ batch.result.tag = "fulfilled"
    /\ Len(batch.result.values) = Len(batch.items)
    /\ \A i \in 1..Len(batch.items) :
         IF HasResolve(batch.items[i])
         THEN IsResolutionOf(batch.result.values[i], i)
         ELSE batch.result.values[i] = Returned(batch.items[i])

\* C19: when the resolution of any element fails, as that of a link without
\* href does, ResolvableArray.resolve fails as a whole: its result is never
\* a sequence, however many other elements have resolved and in whatever
\* order.
C19_NoPartialResult ==
  LastBatch =>
    /\ (\E i \in 1..Len(batch.tasks) : ElementFailed(i)) => batch.result.tag # "fulfilled"
    /\ (\E i \in 1..Len(batch.tasks) : batch.tasks[i].state = "rejected") =>
         batch.result.tag = "rejected"
    /\ batch.result.tag = "fulfilled" => Len(batch.result.values) = Len(batch.items)

\* A link has resolved first, a link without href has failed after it, and
\* the result is the failure.
C19_Witness ==
  /\ LastBatch
  /\ AllSettled
  /\ Len(batch.order) = 3
  /\ batch.tasks[batch.order[1]].state = "fulfilled"
  /\ batch.items[batch.order[1]].k = "link"
  /\ batch.result = Rejected(Thrown("Link href is not set"))

(***************************************************************************)
(* The composite cache.                                                    *)
(***************************************************************************)
\* The last call transformed, on the caller's transformer, a document whose
\* type is a list into an instance.
LastCacheUse ==
  /\ last.op = "transform"
  /\ last.t = "custom"
  /\ last.value.kind = "object"
  /\ last.value.type.k = "list"
  /\ last.ret.tag = "instance"

\* The registered tags of that document's list, in their order.  No
\* registration has happened since the call, so the registry is the one the
\* call has read.
LastFiltered == FilterRegistered(types["custom"], last.value.type.l)

\* A list with every tag kept at its first place only.
RECURSIVE Dedup(_)
Dedup(l) ==
  IF l = <<>> THEN <<>>
  ELSE <<Head(l)>> \o Dedup(SelectSeq(Tail(l), LAMBDA tag : tag # Head(l)))

\* C21: the constituents of a document with a type list are its registered
\* tags in their order with duplicates collapsed: the document is populated
\* from the cache entry under the key of that collapsed list, so that [A, A]
\* and [A, X, A] use the key and the composite of [A].
C21_DuplicatesCollapsed ==
  LastCacheUse =>
    /\ Join(Dedup(LastFiltered)) \in DOMAIN composites["custom"]
    /\ last.ret.cls = composites["custom"][Join(Dedup(LastFiltered))]
    /\ DOMAIN composites["custom"] \subseteq
         DOMAIN last.before \cup {Join(Dedup(LastFiltered))}

\* The constructors a tag can be bound to.
CtorsOf(tag) == {c \in Constructors : CtorType(c) = tag}

\* The class, whatever its serial, is the composition of constructors.
ComposedOf(cls, constructors) == [cls EXCEPT !.serial = 0] = composeClass(constructors)

\* C23: cache keys are injective on filtered tag lists: the composite that
\* populates a document was composed for the document's own filtered list,
\* from one constructor of each of its tags in their order, also for tags
\* with a '-' in their name (['A-B'] against ['A', 'B']).
C23_KeysInjective ==
  LastCacheUse =>
    \E cs \in [1..Len(LastFiltered) -> Constructors] :
      /\ \A i \in 1..Len(LastFiltered) : cs[i] \in CtorsOf(LastFiltered[i])
      /\ ComposedOf(last.ret.cls, cs)

\* C24: the composite that populates a document is the merge of the
\* constructors its registered tags are bound to at the time of the call,
\* also when a tag was registered again after the composite was cached.
C24_CurrentBindings ==
  LastCacheUse =>
    ComposedOf(last.ret.cls,
               [i \in 1..Len(LastFiltered) |-> types["custom"][LastFiltered[i]]])

\* The step is a call of transform on the caller's transformer.
TransformStep == last'.op = "transform" /\ last'.t = "custom"

\* The keys the step has added to the cache.
AddedKeys == DOMAIN composites'["custom"] \ DOMAIN composites["custom"]

\* The step leaves the registry, the options, the built-in transformer's
\* cache and every entry the cache holds as they are.
TransformFrame ==
  /\ types' = types
  /\ options' = options
  /\ composites'["transformer"] = composites["transformer"]
  /\ \A key \in DOMAIN composites["custom"] :
       /\ key \in DOMAIN composites'["custom"]
       /\ composites'["custom"][key] = composites["custom"][key]

\* The documents transform visits in a value: the elements of an array, or
\* the value itself.
Visited(value) == IF value.kind = "array" THEN Len(value.items) ELSE 1

Completes(p) == calls[p] # Idle /\ calls'[p] = Idle

\* The step completes a resolve call on link l.
CompletesOn(l) == \E p \in Callers : Completes(p) /\ calls[p].link = l

\* The value link l holds before the step; a link not yet made holds none.
StoredBefore(l) == IF links[l] = NoLink THEN Unresolved ELSE links[l].resolved

\* C25: whatever the interleaving of overlapping resolve calls on a link,
\* the stored value changes only when a call completes with a value, and
\* is then that call's value: it is at every moment absent or the outcome
\* of the successful call that completed last, and a call whose handler
\* fails leaves it as it was.
C25_LastCompletionWins ==
  [][/\ \A p \in Callers :
          Completes(p) =>
            links'[calls[p].link].resolved =
              IF calls[p].outcome.tag = "throw" THEN StoredBefore(calls[p].link)
              ELSE calls[p].outcome
     /\ \A l \in Links :
          (links'[l] # NoLink /\ ~CompletesOn(l)) =>
            links'[l].resolved = StoredBefore(l)]_vars

\* A call has completed with a value while another call on the same link
\* was under way and the link held a different value from an earlier
\* completion; the link now holds the value of the call completed last.
C25_Witness ==
  /\ lastLink.op = "resolve"
  /\ "call" \in DOMAIN lastLink
  /\ lastLink.ret.tag # "throw"
  /\ lastLink.before.resolved # Unresolved
  /\ lastLink.before.resolved # lastLink.ret
  /\ links[lastLink.link].resolved = lastLink.ret
  /\ \E q \in Callers \ {lastLink.caller} :
       /\ calls[q] # Idle
       /\ calls[q].link = lastLink.link
       /\ calls[q].outcome \notin {Pending, lastLink.ret}

====
